---- MODULE Spec2Model ----
(***************************************************************************)
(* Model of letta/llm_api/anthropic_client.py: the AnthropicClient adapter *)
(* (build_request_data, convert_response_to_chat_completion,               *)
(* handle_llm_error) and its module-level helpers.                         *)
(*                                                                         *)
(* Conventions.  A Python Optional value is a set: {} is None, {v} is v.   *)
(* A Python str is a sequence of tokens (one token is an opaque piece of   *)
(* text, or one of the markup tokens "<", ">", "/", "\n" and the tag name).*)
(* A raised exception is a result whose kind is the exception's class.     *)
(***************************************************************************)
EXTENDS Integers, Sequences, FiniteSets, TLC

VARIABLES
    llm_config,        \* self.llm_config, the client's (mutable) model config
    use_tool_naming,   \* self.use_tool_naming
    config0,           \* history: llm_config as the client was configured
    op,                \* the last call made on the client ("none" before any)
    args,              \* the arguments of the last call
    result             \* what the last call returned or raised

vars == <<llm_config, use_tool_naming, config0, op, args, result>>

(***************************************************************************)
(* Bounds of the model.                                                    *)
(***************************************************************************)
MaxMsgs == 4      \* longest message list handed to build_request_data
MaxDicts == 4     \* longest dict list handed to merge_tool_results_into_user_messages
MaxBlocks == 3    \* longest content list of a provider response
MaxTools == 3     \* longest tool list handed to build_request_data

None == {}
Some(v) == {v}
Val(o) == CHOOSE v \in o : TRUE

SeqsUpTo(S, n) == UNION {[1..k -> S] : k \in 0..n}

(***************************************************************************)
(* Constants of the program.                                               *)
(***************************************************************************)
DUMMY_FIRST_USER_MESSAGE == <<"User initializing bootup sequence.">>

INNER_THOUGHTS_KWARG == "inner_thoughts"

inner_thoughts_xml_tag == "thinking"

DefaultInputSchema == [type |-> "object", properties |-> <<>>, required |-> <<>>]

(***************************************************************************)
(* Provider message dicts.  content is a scalar str or a list of blocks.   *)
(***************************************************************************)
ScalarContent(text) == [isList |-> FALSE, text |-> text, blocks |-> <<>>]

ListContent(blocks) == [isList |-> TRUE, text |-> <<>>, blocks |-> blocks]

TextBlock(text) == [type |-> "text", text |-> text, id |-> ""]

\* content if isinstance(content, list) else [{"type": "text", "text": content}]
AsBlockList(content) ==
    IF content.isList THEN content.blocks ELSE <<TextBlock(content.text)>>

RECURSIVE MergeLoop(_, _, _)
MergeLoop(current_message, rest, merged_messages) ==
    IF rest = <<>>
    THEN Append(merged_messages, current_message)
    ELSE LET next_message == Head(rest) IN
         IF current_message.role = "user" /\ next_message.role = "user"
         THEN MergeLoop(
                [current_message EXCEPT !.content =
                    ListContent(AsBlockList(current_message.content)
                                \o AsBlockList(next_message.content))],
                Tail(rest), merged_messages)
         ELSE MergeLoop(next_message, Tail(rest),
                        Append(merged_messages, current_message))

\* The merge with line 425 left out: the last message is never appended.
merge_forgets_last_message(messages) ==
    IF messages = <<>> THEN <<>>
    ELSE LET merged == MergeLoop(messages[1], Tail(messages), <<>>)
         IN SubSeq(merged, 1, Len(merged) - 1)

merge_tool_results_into_user_messages(messages) ==
    IF messages = <<>> THEN <<>>
    ELSE MergeLoop(messages[1], Tail(messages), <<>>)

(***************************************************************************)
(* Tools.  A function dict is {name, description, parameters}, parameters  *)
(* an Optional JSON schema {type, properties, required}.                   *)
(***************************************************************************)
Tool(f) == [type |-> "function", function |-> f]

\* letta.llm_api.helpers.add_inner_thoughts_to_functions: every function's
\* schema gains the inner-thoughts key as a required property.
add_inner_thoughts_to_functions(functions, inner_thoughts_key) ==
    [i \in 1..Len(functions) |->
        LET f == functions[i]
            p == IF f.parameters = None THEN DefaultInputSchema
                 ELSE Val(f.parameters)
        IN [f EXCEPT !.parameters =
               Some([p EXCEPT !.properties = <<inner_thoughts_key>> \o @,
                              !.required = <<inner_thoughts_key>> \o @])]]

\* tool.function.parameters or {...}: None and the empty dict are both falsy;
\* a schema with a "type" key is never empty.
convert_tools_to_anthropic_format(tools) ==
    [i \in 1..Len(tools) |->
        [name |-> tools[i].function.name,
         description |-> tools[i].function.description,
         input_schema |-> IF tools[i].function.parameters = None
                          THEN DefaultInputSchema
                          ELSE Val(tools[i].function.parameters)]]

\* [Tool(function=f) for f in tools if f["name"] == force_tool_call]
RECURSIVE FilterByName(_, _)
FilterByName(tools, name) ==
    IF tools = <<>> THEN <<>>
    ELSE IF Head(tools).name = name
         THEN <<Tool(Head(tools))>> \o FilterByName(Tail(tools), name)
         ELSE FilterByName(Tail(tools), name)

(***************************************************************************)
(* Canonical messages {role, text, tool_call_id} and their provider form.  *)
(***************************************************************************)
add_xml_tag(text, tag) == <<"<", tag, ">">> \o text \o <<"<", "/", tag, ">">>

\* letta.schemas.message.Message.to_anthropic_dict: a tool message becomes a
\* user message holding one tool_result block; an assistant message holds its
\* reasoning as a tagged text block, or inside its tool_use block when inner
\* thoughts travel in the tool kwargs.
to_anthropic_dict(m, tag, put_inner_thoughts_in_kwargs) ==
    CASE m.role = "tool" ->
           [role |-> "user",
            content |-> ListContent(
               <<[type |-> "tool_result", text |-> m.text, id |-> m.tool_call_id]>>)]
      [] m.role = "assistant" ->
           [role |-> "assistant",
            content |-> ListContent(
               (IF put_inner_thoughts_in_kwargs THEN <<>>
                ELSE <<TextBlock(add_xml_tag(m.text, tag))>>)
               \o <<[type |-> "tool_use",
                     text |-> IF put_inner_thoughts_in_kwargs THEN m.text ELSE <<>>,
                     id |-> m.tool_call_id]>>)]
      [] OTHER -> [role |-> m.role, content |-> ScalarContent(m.text)]

(***************************************************************************)
(* AnthropicClient.build_request_data.  The value is the call's outcome:   *)
(* kind "ok" with the payload, or the class of the exception raised, and   *)
(* put, the value self.llm_config.put_inner_thoughts_in_kwargs is left at. *)
(***************************************************************************)
NoPayload == [model |-> <<>>]

Raise(kind, put) == [kind |-> kind, payload |-> NoPayload, put |-> put]

\* "opus" in data["model"]
ContainsOpus(model) == \E i \in 1..Len(model) : model[i] = "opus"

\* not self.llm_config.max_tokens: None and 0 are falsy
Falsy(optInt) == optInt = None \/ optInt = Some(0)

\* lines 92-96 keeping only the first tool of the forced name
SelectFirstMatchOnly(tools, force_tool_call) ==
    IF force_tool_call # None
    THEN LET matching == FilterByName(tools, Val(force_tool_call))
         IN IF matching = <<>> THEN <<>> ELSE <<matching[1]>>
    ELSE [i \in 1..Len(tools) |-> Tool(tools[i])]

\* lines 92-96: the tools of the request
SelectTools(tools, force_tool_call) ==
    IF force_tool_call # None
    THEN FilterByName(tools, Val(force_tool_call))
    ELSE [i \in 1..Len(tools) |-> Tool(tools[i])]

\* lines 97-98: the flag after "if force_tool_call is not None: ... = True"
FlagAfterForce(cfg, force_tool_call) ==
    IF force_tool_call # None THEN TRUE ELSE cfg.put_inner_thoughts_in_kwargs

\* lines 100-107: the inner thoughts kwarg is added to every tool
WithInnerThoughts(tools_for_request, put) ==
    IF Len(tools_for_request) > 0 /\ put
    THEN LET fs == add_inner_thoughts_to_functions(
                      [i \in 1..Len(tools_for_request) |-> tools_for_request[i].function],
                      INNER_THOUGHTS_KWARG)
         IN [i \in 1..Len(fs) |-> Tool(fs[i])]
    ELSE tools_for_request

\* line 124 with the role test left out
FirstRoleUnchecked(dicts) == TRUE

\* line 124: data["messages"][0]["role"] != "system" raises
FirstIsSystem(dicts) == dicts[1].role = "system"

\* lines 130-132 with the placeholder put after the messages
PlaceholderAppended(msgs) ==
    IF msgs[1].role # "user"
    THEN msgs \o <<[role |-> "user", content |-> ScalarContent(DUMMY_FIRST_USER_MESSAGE)]>>
    ELSE msgs

\* lines 130-132: ensure the first message is user
EnsureFirstUser(msgs) ==
    IF msgs[1].role # "user"
    THEN <<[role |-> "user", content |-> ScalarContent(DUMMY_FIRST_USER_MESSAGE)]>> \o msgs
    ELSE msgs

\* line 141: the prefix-fill condition
PrefixFillCond(prefix_fill, put, model) ==
    prefix_fill /\ ~put /\ ~ContainsOpus(model)

\* lines 137-145
PrefixFill(msgs, prefix_fill, put, model) ==
    IF PrefixFillCond(prefix_fill, put, model)
    THEN Append(msgs, [role |-> "assistant",
                       content |-> ScalarContent(<<"<", inner_thoughts_xml_tag, ">">>)])
    ELSE msgs

\* data["temperature"] = 1.0; temperatures are counted in tenths
ReasonerTemperature == 10

\* lines 76-79: the two asserts of the extended-thinking branch (asserts are
\* executed: the interpreter runs without -O)
ReasonerAssertsHold(cfg) ==
    /\ cfg.max_reasoning_tokens # None
    /\ Val(cfg.max_reasoning_tokens) < Val(cfg.max_tokens)
    /\ ~cfg.put_inner_thoughts_in_kwargs

build_request_data(cfg, utn, messages, tools, force_tool_call) ==
    LET put0 == cfg.put_inner_thoughts_in_kwargs IN
    IF ~utn THEN Raise("NotImplementedError", put0)
    ELSE IF Falsy(cfg.max_tokens) THEN Raise("ValueError", put0)
    ELSE IF cfg.enable_reasoner /\ ~ReasonerAssertsHold(cfg)
    THEN Raise("AssertionError", put0)
    ELSE
    LET prefix_fill == ~cfg.enable_reasoner
        thinking == IF cfg.enable_reasoner
                    THEN Some([type |-> "enabled",
                               budget_tokens |-> Val(cfg.max_reasoning_tokens)])
                    ELSE None
        temperature == IF cfg.enable_reasoner THEN ReasonerTemperature
                       ELSE cfg.temperature
        put == FlagAfterForce(cfg, force_tool_call)
        tools_for_request == WithInnerThoughts(SelectTools(tools, force_tool_call), put)
        data_tools == IF Len(tools_for_request) > 0
                      THEN Some(convert_tools_to_anthropic_format(tools_for_request))
                      ELSE None
        dicts == [i \in 1..Len(messages) |->
                     to_anthropic_dict(messages[i], inner_thoughts_xml_tag, put)]
    IN
    IF dicts = <<>> THEN Raise("IndexError", put)
    ELSE IF ~FirstIsSystem(dicts) THEN Raise("RuntimeError", put)
    ELSE IF Tail(dicts) = <<>> THEN Raise("IndexError", put)
    ELSE
    [kind |-> "ok",
     payload |-> [model |-> cfg.model,
                  max_tokens |-> Val(cfg.max_tokens),
                  temperature |-> temperature,
                  thinking |-> thinking,
                  tools |-> data_tools,
                  system |-> dicts[1].content,
                  messages |-> PrefixFill(
                      merge_tool_results_into_user_messages(EnsureFirstUser(Tail(dicts))),
                      prefix_fill, put, cfg.model)],
     put |-> put]

(***************************************************************************)
(* Text utilities.                                                         *)
(***************************************************************************)
\* Where a match of "<tag.*?>" starting at s[i] ends, 0 if there is none: "<",
\* the tag name, then as few characters as possible, none a newline, up to ">".
OpenTagEnd(s, i, tag) ==
    IF i + 1 <= Len(s) /\ s[i] = "<" /\ s[i + 1] = tag
    THEN LET ends == {j \in (i + 2)..Len(s) :
                        /\ s[j] = ">"
                        /\ \A k \in (i + 2)..(j - 1) : s[k] # "\n"}
         IN IF ends = {} THEN 0
            ELSE CHOOSE j \in ends : \A k \in ends : j <= k
    ELSE 0

\* Where a match of "</tag>" starting at s[i] ends, 0 if there is none.
CloseTagEnd(s, i, tag) ==
    IF i + 3 <= Len(s) /\ s[i] = "<" /\ s[i + 1] = "/" /\ s[i + 2] = tag /\ s[i + 3] = ">"
    THEN i + 3
    ELSE 0

\* The alternation "<tag.*?>|</tag>": the first alternative that matches wins.
TagMatchEnd(s, i, tag) ==
    IF OpenTagEnd(s, i, tag) > 0 THEN OpenTagEnd(s, i, tag) ELSE CloseTagEnd(s, i, tag)

\* re.sub(tag_pattern, "", string): leftmost non-overlapping matches are dropped.
RECURSIVE SubFrom(_, _, _)
SubFrom(s, i, tag) ==
    IF i > Len(s) THEN <<>>
    ELSE IF TagMatchEnd(s, i, tag) > 0
         THEN SubFrom(s, TagMatchEnd(s, i, tag) + 1, tag)
         ELSE <<s[i]>> \o SubFrom(s, i + 1, tag)

strip_xml_tags(string, tag) ==
    IF tag = None THEN string ELSE SubFrom(string, 1, Val(tag))

(***************************************************************************)
(* Response normalisation.                                                 *)
(***************************************************************************)
\* The value is [ok, value]: ok FALSE is the ValueError of the else branch.
\* remap_finish_reason with max_tokens mapped like the stop reasons above it
remap_max_tokens_to_stop(stop_reason) ==
    IF stop_reason \in {"end_turn", "stop_sequence", "max_tokens"}
    THEN [ok |-> TRUE, value |-> "stop"]
    ELSE IF stop_reason = "tool_use" THEN [ok |-> TRUE, value |-> "function_call"]
    ELSE [ok |-> FALSE, value |-> stop_reason]

remap_finish_reason(stop_reason) ==
    IF stop_reason = "end_turn" THEN [ok |-> TRUE, value |-> "stop"]
    ELSE IF stop_reason = "stop_sequence" THEN [ok |-> TRUE, value |-> "stop"]
    ELSE IF stop_reason = "max_tokens" THEN [ok |-> TRUE, value |-> "length"]
    ELSE IF stop_reason = "tool_use" THEN [ok |-> TRUE, value |-> "function_call"]
    ELSE [ok |-> FALSE, value |-> stop_reason]

\* str(response.stop_reason)
Str(optString) == IF optString = None THEN "None" ELSE Val(optString)

\* json.dumps(obj, indent=n): the text of obj, laid out with that indent
JsonDumps(obj, indent) == [json |-> obj, indent |-> indent]

\* json.loads
JsonLoads(text) == text.json

\* lines 257-261: the fields before the scan
EmptyScan ==
    [content |-> None, reasoning_content |-> None,
     reasoning_content_signature |-> None,
     redacted_reasoning_content |-> None, tool_calls |-> None]

\* lines 265-282: one iteration of the loop over response.content
ScanPart(acc, content_part) ==
    LET a1 == IF content_part.type = "text"
              THEN [acc EXCEPT !.content =
                       Some(strip_xml_tags(content_part.text, Some("thinking")))]
              ELSE acc
        a2 == IF content_part.type = "tool_use"
              THEN [a1 EXCEPT !.tool_calls =
                       Some(<<[id |-> content_part.id,
                               type |-> "function",
                               function |->
                                  [name |-> content_part.name,
                                   arguments |-> JsonDumps(content_part.input, 2)]]>>)]
              ELSE a1
        a3 == IF content_part.type = "thinking"
              THEN [a2 EXCEPT !.reasoning_content = Some(content_part.text),
                              !.reasoning_content_signature = Some(content_part.signature)]
              ELSE a2
    IN IF content_part.type = "redacted_thinking"
       THEN [a3 EXCEPT !.redacted_reasoning_content = Some(content_part.data)]
       ELSE a3

\* The scan keeping the first tool_use block instead of the last one.
RECURSIVE ScanKeepsFirstToolUse(_, _)
ScanKeepsFirstToolUse(acc, parts) ==
    IF parts = <<>> THEN acc
    ELSE LET next == ScanPart(acc, Head(parts))
         IN ScanKeepsFirstToolUse(
               IF acc.tool_calls # None THEN [next EXCEPT !.tool_calls = acc.tool_calls]
               ELSE next,
               Tail(parts))

RECURSIVE ScanContent(_, _)
ScanContent(acc, parts) ==
    IF parts = <<>> THEN acc
    ELSE ScanContent(ScanPart(acc, Head(parts)), Tail(parts))

\* dict.pop(key) on a dict held as a sequence of [k, v] items
RECURSIVE DictWithout(_, _)
DictWithout(d, key) ==
    IF d = <<>> THEN <<>>
    ELSE IF Head(d).k = key THEN DictWithout(Tail(d), key)
         ELSE <<Head(d)>> \o DictWithout(Tail(d), key)

DictHas(d, key) == \E i \in 1..Len(d) : d[i].k = key

DictGet(d, key) == d[CHOOSE i \in 1..Len(d) : d[i].k = key].v

\* letta.llm_api.helpers.unpack_all_inner_thoughts_from_kwargs: in every choice
\* the inner-thoughts key of the tool call's arguments is moved to the content.
unpack_all_inner_thoughts_from_kwargs(response, inner_thoughts_key) ==
    [response EXCEPT !.choices =
        [i \in 1..Len(response.choices) |->
            LET message == response.choices[i].message IN
            IF message.tool_calls = None THEN response.choices[i]
            ELSE LET tool_call == Val(message.tool_calls)[1]
                     func_args == JsonLoads(tool_call.function.arguments)
                 IN IF ~DictHas(func_args, inner_thoughts_key)
                    THEN response.choices[i]
                    ELSE [response.choices[i] EXCEPT
                            !.message.content =
                                Some(DictGet(func_args, inner_thoughts_key)),
                            !.message.tool_calls =
                                Some([Val(message.tool_calls) EXCEPT
                                        ![1].function.arguments =
                                            JsonDumps(DictWithout(func_args,
                                                                  inner_thoughts_key),
                                                      2)])]]]

NoResponse == [id |-> ""]

\* lines 288-311: the response before the inner thoughts are unpacked; the
\* creation time (get_utc_time()) is left out
ChatCompletionResponse(response, finish_reason, scan) ==
    [id |-> response.id,
     choices |-> <<[index |-> 0,
                    finish_reason |-> finish_reason,
                    message |-> [role |-> response.role,
                                 content |-> scan.content,
                                 reasoning_content |-> scan.reasoning_content,
                                 reasoning_content_signature |->
                                     scan.reasoning_content_signature,
                                 redacted_reasoning_content |->
                                     scan.redacted_reasoning_content,
                                 tool_calls |-> scan.tool_calls]]>>,
     model |-> response.model,
     usage |-> [prompt_tokens |-> response.usage.input_tokens,
                completion_tokens |-> response.usage.output_tokens,
                total_tokens |-> response.usage.input_tokens
                                 + response.usage.output_tokens]]

convert_response_to_chat_completion(cfg, response) ==
    LET finish_reason == remap_finish_reason(Str(response.stop_reason)) IN
    IF ~finish_reason.ok THEN [kind |-> "ValueError", response |-> NoResponse]
    ELSE IF Len(response.content) = 0
    THEN [kind |-> "RuntimeError", response |-> NoResponse]
    ELSE IF response.role # "assistant"
    THEN [kind |-> "AssertionError", response |-> NoResponse]
    ELSE LET chat_completion_response ==
                ChatCompletionResponse(response, finish_reason.value,
                                       ScanContent(EmptyScan, response.content))
         IN [kind |-> "ok",
             response |-> IF cfg.put_inner_thoughts_in_kwargs
                          THEN unpack_all_inner_thoughts_from_kwargs(
                                   chat_completion_response, INNER_THOUGHTS_KWARG)
                          ELSE chat_completion_response]

(***************************************************************************)
(* Error classification.  The classes of the anthropic package and their   *)
(* base classes; isinstance follows the chain of bases.                    *)
(***************************************************************************)
ExceptionClasses ==
    {"Exception", "ValueError", "AnthropicError", "APIError",
     "APIResponseValidationError", "APIConnectionError", "APITimeoutError",
     "APIStatusError", "BadRequestError", "AuthenticationError",
     "PermissionDeniedError", "NotFoundError", "ConflictError",
     "UnprocessableEntityError", "RateLimitError", "InternalServerError"}

BaseClass(c) ==
    CASE c \in {"ValueError", "AnthropicError"} -> "Exception"
      [] c = "APIError" -> "AnthropicError"
      [] c \in {"APIResponseValidationError", "APIConnectionError", "APIStatusError"}
           -> "APIError"
      [] c = "APITimeoutError" -> "APIConnectionError"
      [] c \in {"BadRequestError", "AuthenticationError", "PermissionDeniedError",
                "NotFoundError", "ConflictError", "UnprocessableEntityError",
                "RateLimitError", "InternalServerError"} -> "APIStatusError"
      [] OTHER -> "Exception"

RECURSIVE IsSubclass(_, _)
IsSubclass(c, base) ==
    IF c = base THEN TRUE
    ELSE IF c = "Exception" THEN FALSE
    ELSE IsSubclass(BaseClass(c), base)

isinstance(e, class) == IsSubclass(e.class, class)

LLMErrorOf(kind, code, details) == [kind |-> kind, code |-> code, details |-> details]

\* LLMClientBase.handle_llm_error: the default classification
super_handle_llm_error(e) == LLMErrorOf("LLMError", "INTERNAL_SERVER_ERROR", None)

\* handle_llm_error with the generic status test made before the specific ones
handle_status_error_first(e) ==
    IF isinstance(e, "APIConnectionError")
    THEN LLMErrorOf("LLMConnectionError", "INTERNAL_SERVER_ERROR", None)
    ELSE IF isinstance(e, "APIStatusError")
    THEN LLMErrorOf("LLMServerError", "INTERNAL_SERVER_ERROR", e.status_code)
    ELSE IF isinstance(e, "RateLimitError")
    THEN LLMErrorOf("LLMRateLimitError", "RATE_LIMIT_EXCEEDED", None)
    ELSE super_handle_llm_error(e)

handle_llm_error(e) ==
    IF isinstance(e, "APIConnectionError")
    THEN LLMErrorOf("LLMConnectionError", "INTERNAL_SERVER_ERROR", None)
    ELSE IF isinstance(e, "RateLimitError")
    THEN LLMErrorOf("LLMRateLimitError", "RATE_LIMIT_EXCEEDED", None)
    ELSE IF isinstance(e, "BadRequestError")
    THEN LLMErrorOf("LLMBadRequestError", "INTERNAL_SERVER_ERROR", None)
    ELSE IF isinstance(e, "AuthenticationError")
    THEN LLMErrorOf("LLMAuthenticationError", "INTERNAL_SERVER_ERROR", None)
    ELSE IF isinstance(e, "PermissionDeniedError")
    THEN LLMErrorOf("LLMPermissionDeniedError", "INTERNAL_SERVER_ERROR", None)
    ELSE IF isinstance(e, "NotFoundError")
    THEN LLMErrorOf("LLMNotFoundError", "INTERNAL_SERVER_ERROR", None)
    ELSE IF isinstance(e, "UnprocessableEntityError")
    THEN LLMErrorOf("LLMUnprocessableEntityError", "INTERNAL_SERVER_ERROR", None)
    ELSE IF isinstance(e, "APIStatusError")
    THEN LLMErrorOf("LLMServerError", "INTERNAL_SERVER_ERROR", e.status_code)
    ELSE super_handle_llm_error(e)

(***************************************************************************)
(* The inputs the calls are made with.                                     *)
(***************************************************************************)
Models == {<<"claude-3-", "haiku">>, <<"claude-3-", "opus", "-20240229">>}

\* LLMConfig: max_tokens and max_reasoning_tokens are Optional[int],
\* temperature is counted in tenths.
Configs ==
    [model : Models,
     max_tokens : {None, Some(0), Some(-1), Some(3)},
     temperature : {7, 10},
     enable_reasoner : BOOLEAN,
     max_reasoning_tokens : {None, Some(2), Some(3)},
     put_inner_thoughts_in_kwargs : BOOLEAN]

\* The configs that differ in the modes only.
ModeConfigs ==
    {c \in Configs : /\ c.max_tokens = Some(3)
                     /\ c.temperature = 7
                     /\ c.max_reasoning_tokens = Some(2)}

Msg(role, text, id) == [role |-> role, text |-> text, tool_call_id |-> id]

MessageChoices ==
    {Msg("system", <<"sys">>, ""), Msg("user", <<"a">>, ""), Msg("user", <<"b">>, ""),
     Msg("assistant", <<"hm">>, "t1"), Msg("tool", <<"ok">>, "t1")}

MessageLists == SeqsUpTo(MessageChoices, MaxMsgs)

SampleMessageLists ==
    {<<>>,
     <<Msg("user", <<"a">>, "")>>,
     <<Msg("system", <<"sys">>, "")>>,
     <<Msg("system", <<"sys">>, ""), Msg("user", <<"a">>, "")>>,
     <<Msg("system", <<"sys">>, ""), Msg("assistant", <<"hm">>, "t1"),
       Msg("tool", <<"ok">>, "t1"), Msg("user", <<"a">>, "")>>}

\* Conversations as the agent runtime sends them: a system message, then others.
WellFormedMessageLists ==
    {ms \in SampleMessageLists : Len(ms) >= 2 /\ ms[1].role = "system"}

DictChoices ==
    {[role |-> "user", content |-> ScalarContent(<<"a">>)],
     [role |-> "user", content |-> ScalarContent(<<"b">>)],
     [role |-> "user", content |-> ListContent(
         <<[type |-> "tool_result", text |-> <<"ok">>, id |-> "t1"]>>)],
     [role |-> "user", content |-> ListContent(<<TextBlock(<<"c">>), TextBlock(<<"d">>)>>)],
     [role |-> "assistant", content |-> ScalarContent(<<"hm">>)],
     [role |-> "system", content |-> ScalarContent(<<"sys">>)]}

DictLists == SeqsUpTo(DictChoices, MaxDicts)

ToolF == [name |-> "f", description |-> "d", parameters |-> None]

ToolG ==
    [name |-> "g", description |-> "e",
     parameters |-> Some([type |-> "object", properties |-> <<"x">>, required |-> <<"x">>])]

\* A second tool named f, with another description and schema.
ToolF2 ==
    [name |-> "f", description |-> "d2",
     parameters |-> Some([type |-> "object", properties |-> <<"y", "z">>,
                          required |-> <<"y">>])]

SampleToolLists == {<<>>, <<ToolF>>, <<ToolG>>, <<ToolF, ToolG>>}

ToolLists == SeqsUpTo({ToolF, ToolG, ToolF2}, MaxTools)

Forces == {None, Some("f"), Some("h")}

\* Content blocks of a provider response: {type, text, id, name, input,
\* signature, data}, the fields a block type does not have left empty.
Block(type, text, id, name, input, signature, data) ==
    [type |-> type, text |-> text, id |-> id, name |-> name, input |-> input,
     signature |-> signature, data |-> data]

TextTagged ==
    Block("text", <<"<", "thinking", ">", "hi", "<", "/", "thinking", ">">>,
          "", "", <<>>, "", "")

TextOpen == Block("text", <<"x", "<", "thinking", "\n", ">", "y">>, "", "", <<>>, "", "")

ToolUse1 == Block("tool_use", <<>>, "t1", "f", <<[k |-> "a", v |-> <<"1">>]>>, "", "")

ToolUse2 ==
    Block("tool_use", <<>>, "t2", "g",
          <<[k |-> INNER_THOUGHTS_KWARG, v |-> <<"because">>], [k |-> "a", v |-> <<"1">>]>>,
          "", "")

Thinking1 == Block("thinking", <<"th1">>, "", "", <<>>, "s1", "")

Thinking2 == Block("thinking", <<"th2">>, "", "", <<>>, "s2", "")

Redacted == Block("redacted_thinking", <<>>, "", "", <<>>, "", "r1")

BlockChoices == {TextTagged, TextOpen, ToolUse1, ToolUse2, Thinking1, Thinking2, Redacted}

\* stop_reason is Optional: the four the adapter knows, one it does not, None
StopReasons ==
    {None, Some("end_turn"), Some("stop_sequence"), Some("max_tokens"),
     Some("tool_use"), Some("pause_turn")}

ResponseOf(content, stop_reason, output_tokens) ==
    [id |-> "msg_1", type |-> "message", role |-> "assistant", content |-> content,
     model |-> <<"claude-3-", "haiku">>, stop_reason |-> stop_reason,
     usage |-> [input_tokens |-> 3, output_tokens |-> output_tokens]]

Responses ==
    {ResponseOf(c, s, n) : c \in SeqsUpTo(BlockChoices, MaxBlocks), s \in StopReasons,
                           n \in {0, 5}}

SampleResponses ==
    {ResponseOf(c, s, 5) :
        c \in {<<>>, <<TextTagged, ToolUse1>>, <<ToolUse2>>, <<Thinking1, TextOpen>>},
        s \in {None, Some("end_turn"), Some("tool_use")}}

StatusOf(c) ==
    CASE c = "BadRequestError" -> Some(400)
      [] c = "AuthenticationError" -> Some(401)
      [] c = "PermissionDeniedError" -> Some(403)
      [] c = "NotFoundError" -> Some(404)
      [] c = "ConflictError" -> Some(409)
      [] c = "UnprocessableEntityError" -> Some(422)
      [] c = "RateLimitError" -> Some(429)
      [] c = "InternalServerError" -> Some(500)
      [] c = "APIStatusError" -> Some(529)
      [] OTHER -> None

Exceptions == {[class |-> c, status_code |-> StatusOf(c)] : c \in ExceptionClasses}

NoArgs == [none |-> TRUE]

NoResult == [kind |-> "none"]

(***************************************************************************)
(* The client and the calls made on it.                                    *)
(***************************************************************************)
InitWith(configs) ==
    /\ llm_config \in configs
    /\ use_tool_naming \in BOOLEAN
    /\ config0 = llm_config
    /\ op = "none"
    /\ args = NoArgs
    /\ result = NoResult

\* build_request_data(messages, tools, tool_call, force_tool_call); tool_call
\* is not read by the method.  args.self_config is the config the call found.
BuildRequestData(messageLists, toolLists, forces) ==
    \E messages \in messageLists, tools \in toolLists, force_tool_call \in forces :
        LET out == build_request_data(llm_config, use_tool_naming,
                                      messages, tools, force_tool_call)
        IN /\ op' = "build"
           /\ args' = [self_config |-> llm_config, messages |-> messages,
                       tools |-> tools, force_tool_call |-> force_tool_call]
           /\ result' = [kind |-> out.kind, payload |-> out.payload]
           /\ llm_config' = [llm_config EXCEPT !.put_inner_thoughts_in_kwargs = out.put]
           /\ UNCHANGED <<use_tool_naming, config0>>

MergeToolResults(dictLists) ==
    \E messages \in dictLists :
        /\ op' = "merge"
        /\ args' = [messages |-> messages]
        /\ result' = [kind |-> "ok",
                      messages |-> merge_tool_results_into_user_messages(messages)]
        /\ UNCHANGED <<llm_config, use_tool_naming, config0>>

ConvertResponse(responses) ==
    \E response_data \in responses :
        LET out == convert_response_to_chat_completion(llm_config, response_data)
        IN /\ op' = "convert"
           /\ args' = [self_config |-> llm_config, response_data |-> response_data]
           /\ result' = out
           /\ UNCHANGED <<llm_config, use_tool_naming, config0>>

HandleLLMError(exceptions) ==
    \E e \in exceptions :
        /\ op' = "error"
        /\ args' = [e |-> e]
        /\ result' = [kind |-> "ok", error |-> handle_llm_error(e)]
        /\ UNCHANGED <<llm_config, use_tool_naming, config0>>

(***************************************************************************)
(* Specifications.                                                         *)
(*   Spec          one client, any sequence of calls on it                 *)
(*   SpecMessages  one call: build_request_data or the merge, every        *)
(*                 message list up to the bound                            *)
(*   SpecConfig    one call of build_request_data, every config            *)
(*   SpecConvert   one call of convert_response_to_chat_completion, every  *)
(*                 response up to the bound                                *)
(*   SpecTools     one call of build_request_data, every tool list up to   *)
(*                 the bound                                               *)
(***************************************************************************)
Init == InitWith(ModeConfigs)

Next ==
    \/ BuildRequestData(SampleMessageLists, SampleToolLists, Forces)
    \/ ConvertResponse(SampleResponses)
    \/ HandleLLMError(Exceptions)

Spec == Init /\ [][Next]_vars

InitMessages == InitWith({c \in ModeConfigs : ~ContainsOpus(c.model)})

NextMessages ==
    \/ op = "none" /\ BuildRequestData(MessageLists, {<<ToolF, ToolG>>}, {None, Some("f")})
    \/ op = "none" /\ MergeToolResults(DictLists)

SpecMessages == InitMessages /\ [][NextMessages]_vars

InitConfig == InitWith(Configs)

NextConfig ==
    /\ op = "none"
    /\ BuildRequestData(WellFormedMessageLists, SampleToolLists, Forces)

SpecConfig == InitConfig /\ [][NextConfig]_vars

InitConvert ==
    InitWith({c \in ModeConfigs : ~ContainsOpus(c.model) /\ ~c.enable_reasoner})

NextConvert ==
    /\ op = "none"
    /\ ConvertResponse(Responses)

SpecConvert == InitConvert /\ [][NextConvert]_vars

InitTools == InitWith(ModeConfigs)

NextTools ==
    /\ op = "none"
    /\ BuildRequestData(WellFormedMessageLists, ToolLists, Forces)

SpecTools == InitTools /\ [][NextTools]_vars

(***************************************************************************)
(* Claims.                                                                 *)
(***************************************************************************)
IsUser(m) == m.role = "user"

\* The positions of a dict list where a maximal run of user messages, or a
\* single message of another role, starts.
GroupStarts(inp) ==
    {i \in 1..Len(inp) : i = 1 \/ ~(IsUser(inp[i - 1]) /\ IsUser(inp[i]))}

\* The j-th smallest group start, and where that group ends.
GroupStart(inp, j) ==
    CHOOSE s \in GroupStarts(inp) :
        Cardinality({t \in GroupStarts(inp) : t < s}) = j - 1

GroupEnd(inp, j) ==
    IF j = Cardinality(GroupStarts(inp)) THEN Len(inp)
    ELSE GroupStart(inp, j + 1) - 1

RECURSIVE ConcatBlocks(_, _, _)
ConcatBlocks(inp, s, e) ==
    IF s > e THEN <<>>
    ELSE (IF inp[s].content.isList THEN inp[s].content.blocks
          ELSE <<[type |-> "text", text |-> inp[s].content.text, id |-> ""]>>)
         \o ConcatBlocks(inp, s + 1, e)

NoAdjacentUsers(out) ==
    \A i \in 1..(Len(out) - 1) : ~(IsUser(out[i]) /\ IsUser(out[i + 1]))

MergedAsClaimed(inp, out) ==
    /\ Len(out) = Cardinality(GroupStarts(inp))
    /\ \A j \in 1..Len(out) :
          LET s == GroupStart(inp, j)
              e == GroupEnd(inp, j)
          IN IF s = e THEN out[j] = inp[s]
             ELSE /\ out[j].role = "user"
                  /\ out[j].content.isList
                  /\ out[j].content.blocks = ConcatBlocks(inp, s, e)
    /\ NoAdjacentUsers(out)

BuildOk == op = "build" /\ result.kind = "ok"

\* The provider dicts of the last build's messages; the flag the conversion
\* read is the one the call left in the config.
BuiltDicts ==
    [i \in 1..Len(args.messages) |->
        to_anthropic_dict(args.messages[i], inner_thoughts_xml_tag,
                          llm_config.put_inner_thoughts_in_kwargs)]

PrefixMessage ==
    [role |-> "assistant", content |-> ScalarContent(<<"<", "thinking", ">">>)]

PlaceholderMessage ==
    [role |-> "user", content |-> ScalarContent(DUMMY_FIRST_USER_MESSAGE)]

\* C1: merge_tool_results_into_user_messages, alone and inside
\* build_request_data, replaces every maximal run of two or more user messages
\* by one user message holding the run's content blocks in order (a scalar
\* content counting as one text block), keeps every other message as it is and
\* in order, and leaves no two adjacent user messages.
C1_MergeRuns ==
    /\ op = "merge" => MergedAsClaimed(args.messages, result.messages)
    /\ BuildOk =>
          /\ NoAdjacentUsers(result.payload.messages)
          /\ \E pre \in {Tail(BuiltDicts), <<PlaceholderMessage>> \o Tail(BuiltDicts)},
                suffix \in {<<>>, <<PrefixMessage>>} :
                \E out \in {SubSeq(result.payload.messages, 1,
                                   Len(result.payload.messages) - Len(suffix))} :
                    /\ result.payload.messages = out \o suffix
                    /\ MergedAsClaimed(pre, out)

\* A build whose messages hold a run of a scalar user message and two tool
\* results, merged into one message of three blocks.
C1_Witness ==
    /\ BuildOk
    /\ Len(args.messages) = 4
    /\ args.messages[2].role = "user"
    /\ args.messages[3].role = "tool"
    /\ args.messages[4].role = "tool"
    /\ Len(result.payload.messages[1].content.blocks) = 3

\* The configuration checks of build_request_data, on the config a call found.
ConfigPasses(c) ==
    /\ use_tool_naming
    /\ c.max_tokens \notin {None, Some(0)}
    /\ c.enable_reasoner =>
          /\ c.max_reasoning_tokens # None
          /\ \A b \in c.max_reasoning_tokens, m \in c.max_tokens : b < m
          /\ ~c.put_inner_thoughts_in_kwargs

\* C2: with a config that passes the configuration checks, a message list
\* whose first message is not a system message makes build_request_data raise
\* the RuntimeError and return no payload.
C2_FirstMustBeSystem ==
    (/\ op = "build"
     /\ ConfigPasses(args.self_config)
     /\ args.messages # <<>>
     /\ args.messages[1].role # "system")
    => /\ result.kind = "RuntimeError"
       /\ result.payload = NoPayload

\* A build on a passing config whose first message is a user message.
C2_Witness ==
    /\ op = "build"
    /\ ConfigPasses(args.self_config)
    /\ Len(args.messages) >= 2
    /\ args.messages[1].role = "user"
    /\ result.kind = "RuntimeError"

\* The payload's messages without the trailing prefix message, if there is one.
PayloadMessagesWithoutPrefix ==
    LET msgs == result.payload.messages IN
    IF msgs[Len(msgs)] = PrefixMessage THEN SubSeq(msgs, 1, Len(msgs) - 1) ELSE msgs

BuildResultOn(c, a) ==
    LET out == build_request_data(c, use_tool_naming, a.messages, a.tools,
                                  a.force_tool_call)
    IN [kind |-> out.kind, payload |-> out.payload]

\* C4: no call changes the model config, so every call's result is the one
\* the same call gives on the config as it was configured: forcing a tool
\* enables the inner-thoughts kwarg mode for that request only.
C4_CallsLeaveConfigUnchanged ==
    /\ llm_config = config0
    /\ op = "build" => result = BuildResultOn(config0, args)
    /\ op = "convert" =>
          result = convert_response_to_chat_completion(config0, args.response_data)

\* The payload's tools carry the synthetic inner-thoughts parameter.
ToolsCarryInnerThoughts(payload) ==
    /\ payload.tools # None
    /\ \A ts \in payload.tools : \E i \in 1..Len(ts) :
          \E j \in 1..Len(ts[i].input_schema.properties) :
              ts[i].input_schema.properties[j] = INNER_THOUGHTS_KWARG

\* C5: no payload both carries a thinking configuration and was built with the
\* inner-thoughts kwarg mode active, its tools carrying the synthetic
\* inner-thoughts parameter.
C5_ThinkingExcludesKwargMode ==
    BuildOk =>
        ~(/\ result.payload.thinking # None
          /\ ToolsCarryInnerThoughts(result.payload))

ConfigurationErrors == {"NotImplementedError", "ValueError", "AssertionError"}

\* The config is one the claim lets a payload be built from.
ConfigAsRequired(c) ==
    /\ use_tool_naming
    /\ \E m \in c.max_tokens : m > 0
    /\ c.enable_reasoner =>
          \E b \in c.max_reasoning_tokens, m \in c.max_tokens : b < m

\* C6: a payload is returned only with tool calling enabled, a positive max
\* tokens and, in reasoning mode, a budget that is set and below max tokens;
\* otherwise the call fails with a configuration error.  A payload built in
\* reasoning mode has temperature 1.0 and thinking {enabled, the budget}.
C6_ConfigChecked ==
    op = "build" =>
        /\ result.kind = "ok" => ConfigAsRequired(args.self_config)
        /\ ~ConfigAsRequired(args.self_config) => result.kind \in ConfigurationErrors
        /\ (result.kind = "ok" /\ args.self_config.enable_reasoner) =>
              /\ result.payload.temperature = 10
              /\ result.payload.thinking =
                    {[type |-> "enabled", budget_tokens |-> b] :
                        b \in args.self_config.max_reasoning_tokens}

ConvertOk == op = "convert" /\ result.kind = "ok"

Recognized(stop_reason) ==
    stop_reason \in {Some("end_turn"), Some("stop_sequence"), Some("max_tokens"),
                     Some("tool_use")}

FinishReasonAsClaimed(stop_reason) ==
    CASE stop_reason = Some("end_turn") -> "stop"
      [] stop_reason = Some("stop_sequence") -> "stop"
      [] stop_reason = Some("max_tokens") -> "length"
      [] stop_reason = Some("tool_use") -> "function_call"

\* A response is returned only for a non-empty content list and a recognized
\* stop_reason, with the finish reason of the table and total = prompt +
\* completion tokens.
ConvertReturnsAsClaimed ==
    ConvertOk =>
        LET r == args.response_data IN
        /\ r.content # <<>>
        /\ Recognized(r.stop_reason)
        /\ Len(result.response.choices) = 1
        /\ result.response.choices[1].finish_reason = FinishReasonAsClaimed(r.stop_reason)
        /\ result.response.usage.prompt_tokens = r.usage.input_tokens
        /\ result.response.usage.completion_tokens = r.usage.output_tokens
        /\ result.response.usage.total_tokens = r.usage.input_tokens + r.usage.output_tokens

\* C7 as claimed: besides the above, every empty content list fails with the
\* empty-content RuntimeError and every unrecognized stop_reason with the
\* ValueError of remap_finish_reason.
C7_AsClaimed ==
    /\ ConvertReturnsAsClaimed
    /\ op = "convert" =>
          /\ args.response_data.content = <<>> => result.kind = "RuntimeError"
          /\ ~Recognized(args.response_data.stop_reason) => result.kind = "ValueError"

\* C7, amended: a response is returned only for a non-empty content list and a
\* recognized stop_reason, with the finish reason of the table and total =
\* prompt + completion tokens; an unrecognized or missing stop_reason fails
\* with the ValueError whatever the content, and an empty content list fails
\* with the empty-content RuntimeError when the stop_reason is recognized.
C7_FinishReasonCheckedFirst ==
    /\ ConvertReturnsAsClaimed
    /\ op = "convert" =>
          /\ ~Recognized(args.response_data.stop_reason) => result.kind = "ValueError"
          /\ (Recognized(args.response_data.stop_reason)
              /\ args.response_data.content = <<>>) => result.kind = "RuntimeError"
          /\ (Recognized(args.response_data.stop_reason)
              /\ args.response_data.content # <<>>) => result.kind = "ok"

\* An empty response without a stop_reason: the ValueError is what is raised.
C7_Witness ==
    /\ op = "convert"
    /\ args.response_data.content = <<>>
    /\ args.response_data.stop_reason = None
    /\ result.kind = "ValueError"

\* The position of the last block of a type in a content list, 0 if none.
LastOfType(content, type) ==
    IF \E i \in 1..Len(content) : content[i].type = type
    THEN CHOOSE i \in 1..Len(content) :
            /\ content[i].type = type
            /\ \A j \in (i + 1)..Len(content) : content[j].type # type
    ELSE 0

\* The tool call the claim describes for a tool_use block.
ToolCallOf(block, input) ==
    [id |-> block.id, type |-> "function",
     function |-> [name |-> block.name, arguments |-> [json |-> input, indent |-> 2]]]

\* The fields of the message that no post-processing touches.
ReasoningAsClaimed(content, m) ==
    LET k == LastOfType(content, "thinking")
        d == LastOfType(content, "redacted_thinking")
    IN /\ m.role = "assistant"
       /\ m.reasoning_content = IF k = 0 THEN None ELSE Some(content[k].text)
       /\ m.reasoning_content_signature = IF k = 0 THEN None ELSE Some(content[k].signature)
       /\ m.redacted_reasoning_content = IF d = 0 THEN None ELSE Some(content[d].data)

\* Content and tool calls as the blocks alone give them.
ContentAndToolCallsAsClaimed(content, m) ==
    LET t == LastOfType(content, "text")
        u == LastOfType(content, "tool_use")
    IN /\ m.content = IF t = 0 THEN None
                      ELSE Some(strip_xml_tags(content[t].text, Some("thinking")))
       /\ (t # 0 /\ content[t] = TextTagged) => m.content = Some(<<"hi">>)
       /\ m.tool_calls = IF u = 0 THEN None
                         ELSE Some(<<ToolCallOf(content[u], content[u].input)>>)

\* C8 as claimed: the response has one choice; its tool calls are absent
\* without a tool_use block and otherwise the one call of the last tool_use
\* block (id, name, arguments); content comes from the text block, reasoning
\* and signature from the thinking block, redacted reasoning from the
\* redacted_thinking block, each absent when no such block occurs.
C8_AsClaimed ==
    ConvertOk =>
        /\ Len(result.response.choices) = 1
        /\ ReasoningAsClaimed(args.response_data.content,
                              result.response.choices[1].message)
        /\ ContentAndToolCallsAsClaimed(args.response_data.content,
                                        result.response.choices[1].message)

HasKey(input, key) == \E i \in 1..Len(input) : input[i].k = key

\* C8, amended: as claimed when the config the call finds has
\* put_inner_thoughts_in_kwargs off, or the last tool_use block's input does
\* not hold the inner-thoughts key (or there is no tool_use block); with the
\* flag on and the key present, content is the key's value and the tool call's
\* arguments are the input without the key.
C8_BlocksToMessage ==
    ConvertOk =>
        LET content == args.response_data.content
            m == result.response.choices[1].message
            u == LastOfType(content, "tool_use")
            unpacked == /\ args.self_config.put_inner_thoughts_in_kwargs
                        /\ u # 0
                        /\ HasKey(content[u].input, INNER_THOUGHTS_KWARG)
        IN /\ Len(result.response.choices) = 1
           /\ ReasoningAsClaimed(content, m)
           /\ ~unpacked => ContentAndToolCallsAsClaimed(content, m)
           /\ unpacked =>
                 /\ \E i \in 1..Len(content[u].input) :
                       /\ content[u].input[i].k = INNER_THOUGHTS_KWARG
                       /\ m.content = Some(content[u].input[i].v)
                 /\ m.tool_calls =
                       Some(<<ToolCallOf(content[u],
                                SelectSeq(content[u].input,
                                          LAMBDA kv : kv.k # INNER_THOUGHTS_KWARG))>>)

\* Two tool_use blocks around a text block, kwarg mode off: the second tool_use
\* block is the tool call.
C8_Witness ==
    /\ ConvertOk
    /\ ~args.self_config.put_inner_thoughts_in_kwargs
    /\ args.response_data.content = <<ToolUse2, TextTagged, ToolUse1>>
    /\ \A tc \in result.response.choices[1].message.tool_calls : tc[1].id = "t1"
    /\ result.response.choices[1].message.tool_calls # None

\* The table of the claim: the canonical error kind of each provider exception
\* category (a timeout is a connection failure; a conflict, an internal server
\* error and a bare status error are the other HTTP status errors).
KindAsClaimed(class) ==
    CASE class \in {"APIConnectionError", "APITimeoutError"} -> "LLMConnectionError"
      [] class = "RateLimitError" -> "LLMRateLimitError"
      [] class = "BadRequestError" -> "LLMBadRequestError"
      [] class = "AuthenticationError" -> "LLMAuthenticationError"
      [] class = "PermissionDeniedError" -> "LLMPermissionDeniedError"
      [] class = "NotFoundError" -> "LLMNotFoundError"
      [] class = "UnprocessableEntityError" -> "LLMUnprocessableEntityError"
      [] class \in {"APIStatusError", "ConflictError", "InternalServerError"}
           -> "LLMServerError"
      [] OTHER -> "LLMError"

\* C9: handle_llm_error gives every provider exception the one kind of the
\* table, never the generic server kind for a specific status-error category,
\* and returns the error (it raises nothing and leaves the client as it was).
C9_ErrorKinds ==
    op = "error" =>
        /\ result.kind = "ok"
        /\ result.error.kind = KindAsClaimed(args.e.class)
        /\ args.e.class \in {"RateLimitError", "BadRequestError", "AuthenticationError",
                             "PermissionDeniedError", "NotFoundError",
                             "UnprocessableEntityError"}
              => result.error.kind # "LLMServerError"

\* A rate-limit error classified as such, with its own error code.
C9_Witness ==
    /\ op = "error"
    /\ args.e.class = "RateLimitError"
    /\ result.error.kind = "LLMRateLimitError"
    /\ result.error.code = "RATE_LIMIT_EXCEEDED"

\* C10: a returned payload's message list ends with the appended assistant
\* message '<thinking>' exactly when reasoning mode is off, the inner-thoughts
\* kwarg mode is neither configured nor forced by force_tool_call, and the
\* model id does not contain 'opus'; otherwise nothing follows the merged
\* conversation messages.
C10_PrefixFillIff ==
    BuildOk =>
        LET msgs == result.payload.messages
            merged == merge_tool_results_into_user_messages(
                          EnsureFirstUser(Tail(BuiltDicts)))
        IN IF /\ ~config0.enable_reasoner
              /\ ~config0.put_inner_thoughts_in_kwargs
              /\ args.force_tool_call = None
              /\ ~(\E i \in 1..Len(config0.model) : config0.model[i] = "opus")
           THEN msgs = Append(merged, PrefixMessage)
           ELSE msgs = merged

\* The supplied tools the claim selects: those named force_tool_call when it
\* is set, all of them when it is not.
ToolsAsClaimed(tools, force_tool_call) ==
    IF force_tool_call = None THEN tools
    ELSE SelectSeq(tools, LAMBDA f : f.name \in force_tool_call)

EmptyObjectSchema == [type |-> "object", properties |-> <<>>, required |-> <<>>]

\* The schema a supplied tool brings: its parameters, or the empty object schema.
SchemaOf(f) ==
    IF f.parameters = None THEN EmptyObjectSchema
    ELSE CHOOSE p \in f.parameters : TRUE

Without(seq, key) == SelectSeq(seq, LAMBDA x : x # key)

Holds(seq, key) == \E i \in 1..Len(seq) : seq[i] = key

\* A payload tool carries the synthetic parameter on top of a tool's schema.
CarriesInnerThoughts(schema, base) ==
    /\ schema.type = base.type
    /\ Holds(schema.properties, INNER_THOUGHTS_KWARG)
    /\ Holds(schema.required, INNER_THOUGHTS_KWARG)
    /\ Without(schema.properties, INNER_THOUGHTS_KWARG) = base.properties
    /\ Without(schema.required, INNER_THOUGHTS_KWARG) = base.required

====
